---- MODULE Spec2Model ----
(***************************************************************************)
(* Model of assistant/langchain_logic.py: the question -> SQL -> answer    *)
(* pipeline (process_question), the session store (store / get_memory),    *)
(* the memoized schema description (get_schema_description), the query     *)
(* executor (execute_query) and the SQL sanitizer (clean_sql_output,       *)
(* correct_common_sql_errors).                                             *)
(*                                                                         *)
(* Text is a sequence of tokens; the text it stands for is the             *)
(* concatenation of the tokens.  "F" is the three-backtick fence marker,   *)
(* "sql" the letters s-q-l, "NL" a newline, "SP" a blank, "SELECT" and     *)
(* "WITH" two of the statement keywords, "x" any other text, and           *)
(* "customer_id" one of the identifiers of the correction table.           *)
(*                                                                         *)
(* Requests are served by threads of one process (views.AskQuestion.post   *)
(* calls process_question on the thread the HTTP layer assigns); store and *)
(* the lru_cache are shared and unguarded, so every statement that touches *)
(* them is a step of its own and the steps of two requests interleave.     *)
(***************************************************************************)
EXTENDS Naturals, Sequences, FiniteSets, TLC

(* ------------------------------ bounds --------------------------------- *)

\* requests (process_question calls) made in one process lifetime
MaxRuns == 2

\* longest sanitizer input, in tokens
MaxLen == 6

Threads == {1, 2}

SessionIds == {"A", "B"}

\* what the SQL-generation model can return: a fenced block with a line of
\* prose, then the statement, which uses an identifier of the correction table
ModelOutputs ==
  { <<"F", "sql", "NL", "x", "NL", "SELECT", "SP", "customer_id", "NL", "F">> }

\* what db.run can do: return rows, return the empty string, raise
DbOutcomes ==
  { [kind |-> "return", text |-> <<"rows">>],
    [kind |-> "return", text |-> <<>>],
    [kind |-> "raise", text |-> <<"no such table">>] }

\* sanitizer inputs
Tokens == {"F", "sql", "NL", "SP", "SELECT", "WITH", "x"}

(* --------------------------- SQL sanitizer ----------------------------- *)

Whitespace == {"NL", "SP"}

\* the alternation SELECT|WITH|INSERT|UPDATE|DELETE of the lookahead
Keywords == {"SELECT", "WITH", "INSERT", "UPDATE", "DELETE"}

RECURSIVE LStrip(_)
LStrip(s) ==
  IF s # <<>> /\ Head(s) \in Whitespace THEN LStrip(Tail(s)) ELSE s

RECURSIVE RStrip(_)
RStrip(s) ==
  IF s # <<>> /\ s[Len(s)] \in Whitespace
  THEN RStrip(SubSeq(s, 1, Len(s) - 1))
  ELSE s

\* str.strip()
Strip(s) == RStrip(LStrip(s))

\* the pattern without its ```sql alternative: the language tag stays
RECURSIVE RemoveFences_tag_kept(_)
RemoveFences_tag_kept(s) ==
  IF s = <<>> THEN <<>>
  ELSE IF Head(s) = "F"
       THEN RemoveFences_tag_kept(Tail(s))
       ELSE <<Head(s)>> \o RemoveFences_tag_kept(Tail(s))

\* re.sub(r"```sql|```", "", sql): leftmost match, first alternative first
RECURSIVE RemoveFences(_)
RemoveFences(s) ==
  IF s = <<>> THEN <<>>
  ELSE IF Head(s) = "F"
       THEN IF Len(s) >= 2 /\ s[2] = "sql"
            THEN RemoveFences(SubSeq(s, 3, Len(s)))
            ELSE RemoveFences(Tail(s))
       ELSE <<Head(s)>> \o RemoveFences(Tail(s))

\* the positions of the newlines that a statement keyword follows
Boundaries(s) ==
  { i \in 1..(Len(s) - 1) : s[i] = "NL" /\ s[i + 1] \in Keywords }

Min(S) == CHOOSE i \in S : \A j \in S : i <= j

Max(S) == CHOOSE i \in S : \A j \in S : i >= j

\* the split without maxsplit=1: [-1] is the text after the last boundary
SplitAtKeyword_unlimited(s) ==
  IF Boundaries(s) = {} THEN s
  ELSE SubSeq(s, Max(Boundaries(s)) + 1, Len(s))

\* re.split(r'\n(?=SELECT|WITH|INSERT|UPDATE|DELETE)', sql, maxsplit=1)[-1]
SplitAtKeyword(s) ==
  IF Boundaries(s) = {} THEN s
  ELSE SubSeq(s, Min(Boundaries(s)) + 1, Len(s))

clean_sql_output(sql) ==
  Strip(SplitAtKeyword(Strip(RemoveFences(Strip(sql)))))

corrections ==
  << <<"customer_id", "customerNumber">>,
     <<"order_id", "orderNumber">>,
     <<"order_details", "orderdetails">>,
     <<"product_id", "productCode">>,
     <<"products.price", "products.buyPrice">> >>

\* str.replace(wrong, right)
Replace(query, wrong, right) ==
  [i \in 1..Len(query) |-> IF query[i] = wrong THEN right ELSE query[i]]

RECURSIVE ApplyCorrections(_, _)
ApplyCorrections(query, k) ==
  IF k > Len(corrections) THEN query
  ELSE ApplyCorrections(Replace(query, corrections[k][1], corrections[k][2]), k + 1)

correct_common_sql_errors(query) == ApplyCorrections(query, 1)

(* ------------------------------- state --------------------------------- *)

VARIABLES
  run,             \* per thread: the frame of its process_question call
  store,           \* store: session id -> ChatMessageHistory object (0: no key)
  heap,            \* the ChatMessageHistory objects: object id -> its messages
  schema_cache,    \* the lru_cache of get_schema_description
  nRuns,           \* process_question calls made so far
  introspections,  \* db.get_table_info calls made so far
  log,             \* per session: the turns of the completed SQL generations,
                   \* kept while the session's requests have not overlapped
  overlapped,      \* per session: two of its requests have run concurrently
  san              \* the sanitizer under test: its input and its output

vars ==
  <<run, store, heap, schema_cache, nRuns, introspections, log, overlapped,
    san>>

NoText == <<>>

StrValue(text) == [type |-> "str", key |-> "", text |-> text]

DictValue(key, text) == [type |-> "dict", key |-> key, text |-> text]

NoValue == [type |-> "none", key |-> "", text |-> NoText]

\* str(sql_result): a str is itself, a dict is its repr
Str(v) ==
  IF v.type = "dict"
  THEN <<"{'", v.key, "': '">> \o v.text \o <<"'}">>
  ELSE v.text

HumanMessage(content) == [role |-> "human", content |-> content]

AIMessage(content) == [role |-> "ai", content |-> content]

NoRequest == [query |-> NoText, result |-> NoText]

\* no call in progress: the locals of process_question do not exist
IdleRun ==
  [ pc |-> "idle", question |-> NoText, session_id |-> "", schema |-> "",
    handle |-> 0, chat_history |-> <<>>, raw_sql |-> NoText,
    clean_query |-> NoText, sql_result |-> NoValue, error |-> "",
    trace |-> <<>>, hit |-> FALSE,
    db_outcome |-> [kind |-> "", text |-> NoText],
    executed |-> NoText, rephrasing |-> NoRequest ]

Finished(t) == run[t].pc \in {"idle", "done", "failed"}

Goto(t, label) == run' = [run EXCEPT ![t].pc = label]

\* process_question returns its answer: the frame is gone, the calls it
\* made stay on record
Return(r) == [IdleRun EXCEPT !.pc = "done", !.trace = r.trace]

\* the exception leaves process_question (and the view, which catches nothing)
Raise(r, kind) ==
  [IdleRun EXCEPT !.pc = "failed", !.error = kind, !.trace = r.trace]

\* what the k-th db.get_table_info call returns: the live schema may have
\* changed between two calls, so each call has a description of its own
TableInfo(k) == "schema" \o ToString(k)

\* the k-th request of the process lifetime asks question k
Question(k) == <<"q" \o ToString(k)>>

Init ==
  /\ run = [t \in Threads |-> IdleRun]
  /\ store = [s \in SessionIds |-> 0]
  /\ heap = <<>>
  /\ schema_cache = [set |-> FALSE, value |-> ""]
  /\ nRuns = 0
  /\ introspections = 0
  /\ log = [s \in SessionIds |-> <<>>]
  /\ overlapped = [s \in SessionIds |-> FALSE]
  /\ san = [phase |-> "unused", input |-> NoText, output |-> NoText]

(* ------------------------ get_schema_description ----------------------- *)

\* the HTTP layer hands a request to the first free worker thread
FreeWorker(t) ==
  /\ Finished(t)
  /\ \A u \in Threads : Finished(u) => ~(u < t)

\* a request for session s arrives while another one of s is being served
Overlaps(t, s) ==
  \E u \in Threads \ {t} : ~Finished(u) /\ run[u].session_id = s

\* AskQuestion.post -> process_question(question, session_id)
Start(t) ==
  /\ FreeWorker(t)
  /\ nRuns < MaxRuns
  /\ \E s \in SessionIds :
       /\ run' = [run EXCEPT ![t] =
                    [IdleRun EXCEPT !.pc = "schema",
                                    !.question = Question(nRuns + 1),
                                    !.session_id = s]]
       /\ overlapped' = [overlapped EXCEPT ![s] = @ \/ Overlaps(t, s)]
       /\ log' = [log EXCEPT ![s] = IF Overlaps(t, s) THEN <<>> ELSE @]
  /\ nRuns' = nRuns + 1
  /\ UNCHANGED <<store, heap, schema_cache, introspections, san>>

\* get_schema_description without its @lru_cache(): every call introspects
SchemaLookup_uncached(t) ==
  /\ run[t].pc = "schema"
  /\ Goto(t, "introspect")
  /\ UNCHANGED <<store, heap, schema_cache, nRuns, introspections, log,
                 overlapped, san>>

\* build_sql_prompt -> get_schema_description: the lru_cache lookup
SchemaLookup(t) ==
  /\ run[t].pc = "schema"
  /\ IF schema_cache.set
     THEN run' = [run EXCEPT ![t].pc = "memcheck",
                             ![t].schema = schema_cache.value,
                             ![t].hit = TRUE]
     ELSE Goto(t, "introspect")
  /\ UNCHANGED <<store, heap, schema_cache, nRuns, introspections, log,
                 overlapped, san>>

\* the cache missed: db.get_table_info() runs; its value is cached unless
\* another thread cached one meanwhile, and the caller gets its own value
Introspect(t) ==
  /\ run[t].pc = "introspect"
  /\ introspections' = introspections + 1
  /\ LET v == TableInfo(introspections + 1)
     IN  /\ run' = [run EXCEPT ![t].pc = "memcheck", ![t].schema = v]
         /\ schema_cache' =
              IF schema_cache.set THEN schema_cache
              ELSE [set |-> TRUE, value |-> v]
  /\ UNCHANGED <<store, heap, nRuns, log, overlapped, san>>

\* db.get_table_info() raises: nothing is cached, the error propagates
IntrospectFails(t) ==
  /\ run[t].pc = "introspect"
  /\ introspections' = introspections + 1
  /\ run' = [run EXCEPT ![t] = Raise(@, "schema")]
  /\ UNCHANGED <<store, heap, schema_cache, nRuns, log, overlapped, san>>

(* ------------------------------ get_memory ----------------------------- *)

\* get_memory without its `if`: a new ChatMessageHistory on every call
MemoryCheck_always_new(t) ==
  /\ run[t].pc = "memcheck"
  /\ Goto(t, "memcreate")
  /\ UNCHANGED <<store, heap, schema_cache, nRuns, introspections, log,
                 overlapped, san>>

\* RunnableWithMessageHistory.invoke calls get_session_history(session_id),
\* that is get_memory: `if session_id not in store`
MemoryCheck(t) ==
  /\ run[t].pc = "memcheck"
  /\ IF store[run[t].session_id] = 0
     THEN Goto(t, "memcreate")
     ELSE Goto(t, "memreturn")
  /\ UNCHANGED <<store, heap, schema_cache, nRuns, introspections, log,
                 overlapped, san>>

\* `store[session_id] = ChatMessageHistory()`
MemoryCreate(t) ==
  /\ run[t].pc = "memcreate"
  /\ heap' = Append(heap, <<>>)
  /\ store' = [store EXCEPT ![run[t].session_id] = Len(heap) + 1]
  /\ Goto(t, "memreturn")
  /\ UNCHANGED <<schema_cache, nRuns, introspections, log, overlapped, san>>

\* `return store[session_id]`
MemoryReturn(t) ==
  /\ run[t].pc = "memreturn"
  /\ run' = [run EXCEPT ![t].pc = "load",
                        ![t].handle = store[run[t].session_id]]
  /\ UNCHANGED <<store, heap, schema_cache, nRuns, introspections, log,
                 overlapped, san>>

(* --------------------- memory_chain.invoke (1. Generate SQL) ----------- *)

\* the wrapper reads the transcript into {chat_history}
LoadHistory(t) ==
  /\ run[t].pc = "load"
  /\ run' = [run EXCEPT ![t].pc = "generate",
                        ![t].chat_history = heap[run[t].handle]]
  /\ UNCHANGED <<store, heap, schema_cache, nRuns, introspections, log,
                 overlapped, san>>

\* sql_prompt | llm | StrOutputParser() returns the model's text
GenerateSql(t) ==
  /\ run[t].pc = "generate"
  /\ \E raw \in ModelOutputs :
       /\ run' = [run EXCEPT ![t].pc = "savehuman", ![t].raw_sql = raw,
                             ![t].trace = Append(@, "generate")]
       /\ log' = [log EXCEPT ![run[t].session_id] =
                    IF overlapped[run[t].session_id] THEN @
                    ELSE @ \o <<HumanMessage(run[t].question),
                                AIMessage(raw)>>]
  /\ UNCHANGED <<store, heap, schema_cache, nRuns, introspections, overlapped,
                 san>>

\* the failed model call is made again instead of propagating
GenerateSqlFails_retried(t) ==
  /\ run[t].pc = "generate"
  /\ run' = [run EXCEPT ![t].trace = Append(@, "generate")]
  /\ UNCHANGED <<store, heap, schema_cache, nRuns, introspections, log,
                 overlapped, san>>

\* the model call raises: nothing is appended, the error propagates
GenerateSqlFails(t) ==
  /\ run[t].pc = "generate"
  /\ run' = [run EXCEPT ![t] =
               Raise([@ EXCEPT !.trace = Append(@, "generate")], "llm_sql")]
  /\ UNCHANGED <<store, heap, schema_cache, nRuns, introspections, log,
                 overlapped, san>>

\* the wrapper appends the question turn to the transcript ...
SaveHuman(t) ==
  /\ run[t].pc = "savehuman"
  /\ heap' = [heap EXCEPT ![run[t].handle] =
                Append(@, HumanMessage(run[t].question))]
  /\ Goto(t, "saveai")
  /\ UNCHANGED <<store, schema_cache, nRuns, introspections, log, overlapped,
                 san>>

\* ... and then the generated-SQL turn; invoke returns raw_sql, and the
\* handle and the loaded history, locals of the invoke call, are gone
SaveAI(t) ==
  /\ run[t].pc = "saveai"
  /\ heap' = [heap EXCEPT ![run[t].handle] =
                Append(@, AIMessage(run[t].raw_sql))]
  /\ run' = [run EXCEPT ![t].pc = "clean", ![t].handle = 0,
                        ![t].chat_history = <<>>]
  /\ UNCHANGED <<store, schema_cache, nRuns, introspections, log, overlapped,
                 san>>

(* ------------------------------ sanitizing ----------------------------- *)

\* clean_query = clean_sql_output(raw_sql)
CleanSql(t) ==
  /\ run[t].pc = "clean"
  /\ run' = [run EXCEPT ![t].pc = "correct",
                        ![t].clean_query = clean_sql_output(run[t].raw_sql),
                        ![t].trace = Append(@, "clean")]
  /\ UNCHANGED <<store, heap, schema_cache, nRuns, introspections, log,
                 overlapped, san>>

\* correct_common_sql_errors(clean_query) called, its result dropped
CorrectSql_result_dropped(t) ==
  /\ run[t].pc = "correct"
  /\ run' = [run EXCEPT ![t].pc = "execute",
                        ![t].trace = Append(@, "correct")]
  /\ UNCHANGED <<store, heap, schema_cache, nRuns, introspections, log,
                 overlapped, san>>

\* clean_query = correct_common_sql_errors(clean_query)
CorrectSql(t) ==
  /\ run[t].pc = "correct"
  /\ run' = [run EXCEPT ![t].pc = "execute",
                        ![t].clean_query =
                           correct_common_sql_errors(run[t].clean_query),
                        ![t].trace = Append(@, "correct")]
  /\ UNCHANGED <<store, heap, schema_cache, nRuns, introspections, log,
                 overlapped, san>>

(* ----------------------------- execute_query --------------------------- *)

\* execute_query without its try/except
execute_query_uncaught(outcome) ==
  IF outcome.kind = "raise"
  THEN [raised |-> TRUE, value |-> NoValue]
  ELSE [raised |-> FALSE,
        value |-> IF outcome.text # <<>>
                  THEN StrValue(outcome.text)
                  ELSE DictValue("info", <<"No results found.">>)]

\* try: result = db.run(query); return result if result else {"info": ...}
\* except Exception as e: return {"error": f"Query failed: {str(e)}"}
execute_query(outcome) ==
  IF outcome.kind = "raise"
  THEN [raised |-> FALSE,
        value |-> DictValue("error", <<"Query failed: ">> \o outcome.text)]
  ELSE [raised |-> FALSE,
        value |-> IF outcome.text # <<>>
                  THEN StrValue(outcome.text)
                  ELSE DictValue("info", <<"No results found.">>)]

\* sql_result = execute_query(clean_query)
ExecuteSql(t) ==
  /\ run[t].pc = "execute"
  /\ \E outcome \in DbOutcomes :
       LET r == execute_query(outcome)
           called == [run[t] EXCEPT !.trace = Append(@, "execute"),
                                    !.executed = run[t].clean_query,
                                    !.db_outcome = outcome]
       IN  run' = [run EXCEPT ![t] =
                     IF r.raised
                     THEN Raise(called, "db")
                     ELSE [called EXCEPT !.pc = "rephrase",
                                         !.sql_result = r.value]]
  /\ UNCHANGED <<store, heap, schema_cache, nRuns, introspections, log,
                 overlapped, san>>

(* ---------------------------- rephrase_chain --------------------------- *)

\* process_question returning early on an error record or the no-rows marker
RephraseCall_skipped_on_error(t) ==
  /\ run[t].pc = "rephrase"
  /\ run' = [run EXCEPT ![t] =
               IF run[t].sql_result.type = "dict"
               THEN Return(@)
               ELSE [@ EXCEPT !.pc = "rephrasing",
                              !.rephrasing =
                                 [query |-> run[t].clean_query,
                                  result |-> Str(run[t].sql_result)],
                              !.trace = Append(@, "rephrase")]]
  /\ UNCHANGED <<store, heap, schema_cache, nRuns, introspections, log,
                 overlapped, san>>

\* rephrase_chain.invoke({question, query, result}): the request goes out
RephraseCall(t) ==
  /\ run[t].pc = "rephrase"
  /\ run' = [run EXCEPT ![t].pc = "rephrasing",
                        ![t].rephrasing =
                           [query |-> run[t].clean_query,
                            result |-> Str(run[t].sql_result)],
                        ![t].trace = Append(@, "rephrase")]
  /\ UNCHANGED <<store, heap, schema_cache, nRuns, introspections, log,
                 overlapped, san>>

\* the model answers and process_question returns the answer
RephraseReturns(t) ==
  /\ run[t].pc = "rephrasing"
  /\ run' = [run EXCEPT ![t] = Return(@)]
  /\ UNCHANGED <<store, heap, schema_cache, nRuns, introspections, log,
                 overlapped, san>>

\* the rephrasing model call raises: the error propagates
RephraseFails(t) ==
  /\ run[t].pc = "rephrasing"
  /\ run' = [run EXCEPT ![t] = Raise(@, "llm_rephrase")]
  /\ UNCHANGED <<store, heap, schema_cache, nRuns, introspections, log,
                 overlapped, san>>

(* --------------------------- the specification ------------------------- *)

Next ==
  \E t \in Threads :
    \/ Start(t)
    \/ SchemaLookup(t)
    \/ Introspect(t)
    \/ IntrospectFails(t)
    \/ MemoryCheck(t)
    \/ MemoryCreate(t)
    \/ MemoryReturn(t)
    \/ LoadHistory(t)
    \/ GenerateSql(t)
    \/ GenerateSqlFails(t)
    \/ SaveHuman(t)
    \/ SaveAI(t)
    \/ CleanSql(t)
    \/ CorrectSql(t)
    \/ ExecuteSql(t)
    \/ RephraseCall(t)
    \/ RephraseReturns(t)
    \/ RephraseFails(t)

Spec == Init /\ [][Next]_vars

(* ------------------- the sanitizer on its own inputs -------------------- *)

\* every text of at most MaxLen tokens
Inputs == UNION { [1..n -> Tokens] : n \in 0..MaxLen }

InitClean ==
  /\ run = [t \in Threads |-> IdleRun]
  /\ store = [s \in SessionIds |-> 0]
  /\ heap = <<>>
  /\ schema_cache = [set |-> FALSE, value |-> ""]
  /\ nRuns = 0
  /\ introspections = 0
  /\ log = [s \in SessionIds |-> <<>>]
  /\ overlapped = [s \in SessionIds |-> FALSE]
  /\ san \in { [phase |-> "input", input |-> i, output |-> NoText] :
                 i \in Inputs }

\* clean_sql_output(san.input) is called and returns
Clean ==
  /\ san.phase = "input"
  /\ san' = [san EXCEPT !.phase = "output",
                        !.output = clean_sql_output(san.input)]
  /\ UNCHANGED <<run, store, heap, schema_cache, nRuns, introspections, log,
                 overlapped>>

NextClean == Clean

SpecClean == InitClean /\ [][NextClean]_vars

(* ------------------------------- claims -------------------------------- *)

Has(trace, op) == \E i \in DOMAIN trace : trace[i] = op

Count(trace, op) == Cardinality({ i \in DOMAIN trace : trace[i] = op })

IsPrefix(a, b) == Len(a) <= Len(b) /\ SubSeq(b, 1, Len(a)) = a

FullTrace == <<"generate", "clean", "correct", "execute", "rephrase">>

\* the run of thread t has called execute_query and still holds its locals
Executed(t) == run[t].pc \in {"rephrase", "rephrasing"}

\* C1: whenever a run has called execute_query, both sanitizer functions were
\* applied before the call, in the order clean then correct, and the string
\* passed is correct_common_sql_errors(clean_sql_output(raw_sql)) for the
\* raw_sql the model returned in that same run.
C1_SanitizedBeforeExecution ==
  \A t \in Threads :
    /\ Has(run[t].trace, "execute") =>
         SubSeq(run[t].trace, 1, 4) = SubSeq(FullTrace, 1, 4)
    /\ Executed(t) =>
         run[t].executed =
           correct_common_sql_errors(clean_sql_output(run[t].raw_sql))

\* C1 witness: a run has executed a query that sanitizing changed
C1_Witness ==
  \E t \in Threads :
    /\ Executed(t)
    /\ run[t].executed = <<"SELECT", "SP", "customerNumber">>
    /\ run[t].executed # run[t].raw_sql

\* C2: a run whose SQL generation returned ends only after exactly one call of
\* the rephraser, made after execute_query returned, whatever execute_query
\* returned; the rephraser gets the executed query and str(sql_result).
C2_RephraserAlwaysInvoked ==
  \A t \in Threads :
    /\ Count(run[t].trace, "rephrase") <= 1
    /\ (Finished(t) /\ Has(run[t].trace, "clean")) => run[t].trace = FullTrace
    /\ run[t].pc = "rephrasing" =>
         /\ run[t].trace = FullTrace
         /\ run[t].rephrasing.query = run[t].executed
         /\ run[t].rephrasing.result = Str(run[t].sql_result)

\* C2 witness: the rephraser is being called with a stringified error record
\* while another run has returned its answer
C2_Witness ==
  \E t, u \in Threads :
    /\ run[t].pc = "rephrasing"
    /\ run[t].sql_result.key = "error"
    /\ run[t].rephrasing.result =
         <<"{'", "error", "': '", "Query failed: ", "no such table", "'}">>
    /\ run[u].pc = "done"

\* C3: no run fails with an exception raised by execute_query; when db.run
\* raised, execute_query returned the record {error: "Query failed: <message>"}.
C3_ExecuteQueryNeverRaises ==
  \A t \in Threads :
    /\ run[t].error # "db"
    /\ (Executed(t) /\ run[t].db_outcome.kind = "raise") =>
         run[t].sql_result =
           DictValue("error", <<"Query failed: ">> \o run[t].db_outcome.text)

\* C3 witness: db.run raised and the run went on to the rephrasing stage
C3_Witness ==
  \E t \in Threads :
    /\ run[t].pc = "rephrase"
    /\ run[t].db_outcome.kind = "raise"

C5_SameSessionSameTranscript ==
  \A t, u \in Threads :
    (run[t].handle # 0 /\ run[u].handle # 0
       /\ run[t].session_id = run[u].session_id) =>
      /\ run[t].handle = run[u].handle
      /\ run[t].handle = store[run[t].session_id]

C7_ModelErrorsPropagate ==
  \A t \in Threads :
    /\ Count(run[t].trace, "generate") <= 1
    /\ Count(run[t].trace, "rephrase") <= 1
    /\ run[t].error = "llm_sql" =>
         run[t].pc = "failed" /\ run[t].trace = <<"generate">>
    /\ run[t].error = "llm_rephrase" =>
         run[t].pc = "failed" /\ run[t].trace = FullTrace

\* C7 witness: one run failed in SQL generation, another in rephrasing
C7_Witness ==
  \E t, u \in Threads :
    /\ run[t].error = "llm_sql"
    /\ run[u].error = "llm_rephrase"

\* the input is <fence>[sql] <enclosed text> <fence>
IsFenced(i) ==
  /\ Len(i) >= 3
  /\ i[1] = "F"
  /\ i[Len(i)] = "F"
  /\ \A k \in 2..(Len(i) - 1) : i[k] # "F"
  /\ i[2] = "sql" => Len(i) >= 4

Enclosed(i) ==
  IF i[2] = "sql" THEN SubSeq(i, 3, Len(i) - 1) ELSE SubSeq(i, 2, Len(i) - 1)

\* C8: for a fenced input, clean_sql_output returns the enclosed text trimmed,
\* with no fence marker in it.
C8_FencedTextReturnedTrimmed ==
  (san.phase = "output" /\ IsFenced(san.input)) =>
    /\ san.output = Strip(Enclosed(san.input))
    /\ \A k \in DOMAIN san.output : san.output[k] # "F"

\* C8 amended: for a fenced input the result has no fence marker; it is the
\* enclosed text trimmed when no line of that text after a newline begins
\* with a statement keyword, and otherwise the enclosed text from its first
\* such line onward, trimmed.
C8_FencedTextUpToKeywordSplit ==
  (san.phase = "output" /\ IsFenced(san.input)) =>
    LET e == Strip(Enclosed(san.input))
    IN  /\ \A k \in DOMAIN san.output : san.output[k] # "F"
        /\ Boundaries(e) = {} => san.output = e
        /\ Boundaries(e) # {} =>
             san.output = Strip(SubSeq(e, Min(Boundaries(e)) + 1, Len(e)))

\* C8 witness: a statement fenced with the sql tag comes back bare
C8_Witness ==
  /\ san.phase = "output"
  /\ san.input = <<"F", "sql", "NL", "SELECT", "NL", "F">>
  /\ san.output = <<"SELECT">>

\* C9 as stated: when some line of the input after a newline begins with a
\* statement keyword, clean_sql_output returns, trimmed and without fence
\* markers, only the text after the last such boundary.
C9_KeepsFinalBlock ==
  (san.phase = "output" /\ Boundaries(san.input) # {}) =>
    san.output =
      Strip(RemoveFences(SubSeq(san.input, Max(Boundaries(san.input)) + 1,
                                Len(san.input))))

\* the input trimmed and freed of its fence markers
Unfenced(i) == Strip(RemoveFences(Strip(i)))

\* C9 amended: when some line of the trimmed, fence-free text after a newline
\* begins with a statement keyword, clean_sql_output returns, trimmed, the
\* text after the first such boundary.
C9_KeepsFromFirstKeywordLine ==
  (san.phase = "output" /\ Boundaries(Unfenced(san.input)) # {}) =>
    \E b \in Boundaries(Unfenced(san.input)) :
      /\ \A c \in Boundaries(Unfenced(san.input)) : b <= c
      /\ san.output =
           Strip(SubSeq(Unfenced(san.input), b + 1, Len(Unfenced(san.input))))

\* C9 witness: prose, then two statement lines: both are kept
C9_Witness ==
  /\ san.phase = "output"
  /\ san.input = <<"x", "NL", "SELECT", "NL", "WITH", "x">>
  /\ san.output = <<"SELECT", "NL", "WITH", "x">>

Transcript(st, hp, s) == IF st[s] = 0 THEN <<>> ELSE hp[st[s]]

\* C10: no step removes a key from the store or changes a turn already in the
\* transcript stored under a key (a transcript only grows at its end), and
\* only a request of session s changes what is stored under s.
C10_SessionsIsolatedAppendOnly ==
  [][ \A s \in SessionIds :
        /\ store[s] # 0 => store'[s] # 0
        /\ IsPrefix(Transcript(store, heap, s), Transcript(store', heap', s))
        /\ (store'[s] # store[s]
              \/ Transcript(store', heap', s) # Transcript(store, heap, s)) =>
             \E t \in Threads :
               run[t].session_id = s /\ run'[t] # run[t] ]_vars

====
